---- MODULE Spec2Model ----
(***************************************************************************)
(* Husqvarna Automower BLE integration: the polling coordinator            *)
(* (coordinator.py), the lawn-mower entity and its commands                *)
(* (lawn_mower.py), run on one asyncio event loop.                         *)
(*                                                                         *)
(* A coroutine runs without interruption between two awaits, so one action *)
(* of the model is "the awaited call of one coroutine completes, and the   *)
(* coroutine runs on to its next await (or to its end)".  The position of  *)
(* a coroutine is the await it is suspended in: the call named by that     *)
(* position is in flight on the Device Link.                               *)
(*                                                                         *)
(* The code that one such step runs is written as operators from a state   *)
(* record S to the set of records the step can end in; an action applies   *)
(* one of them to the variables.                                           *)
(***************************************************************************)
EXTENDS Integers, FiniteSets, Sequences, TLC

VARIABLES
    connected,      \* mower.is_connected()
    cmdInProgress,  \* coordinator._command_in_progress
    data,           \* coordinator.data, the published Snapshot
    attrActivity,   \* entity._attr_activity
    attrAvailable,  \* entity._attr_available
    clock,          \* now: datetime.now(); lastSuccess:
                    \* coordinator._last_successful_update; okAt: its value
                    \* when a poll last returned its Snapshot
    timerArmed,     \* the coordinator's refresh interval timer is scheduled
    dbTimer,        \* the request debouncer's cooldown timer is running
    dbPending,      \* the debouncer runs a refresh when the cooldown ends
    ppc,            \* per poll: the await _async_update_data is suspended in
    pidx,           \* per poll: which of the eight reads is in flight
    pdata,          \* per poll: the local dict `data`
    pexc,           \* per poll: the exception pending while `finally` runs
    powner,         \* who awaits the debounced poll
    lastExc,        \* the exception the last ended poll left with
    cpc,            \* per command task: the await it is suspended in
    ckind,          \* per command task: which operation it runs
    cprog,          \* per command task: how far its operation has come
    cres,           \* per command task: how its last operation ended
    reqFor,         \* the tasks whose request the debounced refresh serves
    entry,          \* the config entry: how far async_setup_entry,
                    \* async_unload_entry and async_shutdown have come
    flow            \* the config flow: its user step and what it showed

vars == <<connected, cmdInProgress, data, attrActivity, attrAvailable, clock,
          timerArmed, dbTimer,
          dbPending, ppc, pidx, pdata, pexc, powner, lastExc, cpc, ckind, cprog, cres,
          reqFor, entry, flow>>

----------------------------------------------------------------------------
(* Bounds and constants *)

\* command tasks that may be in progress at the same time
MaxCmds == 2

\* the reads of one poll, coordinator.py lines 110-119
NumReads == 8

\* the clock runs from 0 to MaxTime, in minutes
MaxTime == 14

\* calls of async_shutdown on one coordinator
MaxShutdowns == 2

\* timedelta(minutes=12), entity.py line 26
Window == 12

\* _last_successful_update is None
NoStamp == MaxTime + 1

Cmds == 1..MaxCmds

\* "sched": the poll of the refresh interval; "req": the poll the request
\* debouncer runs (under its lock, so there is one)
Polls == {"sched", "req"}

None == "None"

FieldNames ==
    <<"battery_level", "is_charging", "mode", "state", "activity", "error",
      "next_start_time", "statistics">>

EmptyDict == [f \in {} |-> None]

\* dict.get(key)
Get(d, key) == IF key \in DOMAIN d THEN d[key] ELSE None

MowerStates ==
    {"OFF", "WAIT_FOR_SAFETYPIN", "STOPPED", "FATAL_ERROR", "PENDING_START",
     "PAUSED", "IN_OPERATION", "RESTRICTED", "ERROR"}

MowerActivities ==
    {"NONE", "CHARGING", "GOING_OUT", "MOWING", "GOING_HOME", "PARKED",
     "STOPPED_IN_GARDEN"}

\* What a read of a field can return.  wide: every value of the enums (and no
\* response); otherwise two readings, one displayed as Docked and one as absent.
ReadValues(f, wide) ==
    IF f = "state"
        THEN (IF wide THEN MowerStates \cup {None} ELSE {"IN_OPERATION"})
    ELSE IF f = "activity"
        THEN (IF wide THEN MowerActivities \cup {None} ELSE {"PARKED", None})
    ELSE {"v"}

EntityKinds ==
    {"start_mowing", "dock", "pause", "park_indefinitely", "resume_schedule"}

\* The operations each command task may run.  AnyOps: task 1 runs the
\* commands of the lawn-mower entity and execute_command_with_refresh, one at
\* a time.  ExecOps: every task runs execute_command_with_refresh.
AnyOps == [c \in Cmds |-> IF c = 1 THEN EntityKinds \cup {"exec"} ELSE {}]
ExecOps == [c \in Cmds |-> {"exec"}]

\* how an operation ended: which operation, and returned / raised / noop
NoRes == <<"none", "none">>
Res(S, c, how) == <<IF S.ckind[c] = "exec" THEN "exec" ELSE "entity", how>>

\* How _async_update_data can end: it returns its dict (NoExc), it raises
\* UpdateFailed from one of its two except blocks (lines 129, 133), or the
\* disconnect of its finally block raises.
NoExc == "none"
ErrFetch == "UpdateFailed: Error fetching data from device"
ErrUnexpected == "UpdateFailed: Unexpected error fetching data"
ErrDisconnect == "raised by disconnect"

\* What is raised inside the try block of _async_update_data: UpdateFailed
\* by _async_find_device (lines 73, 78, 81), TimeoutError or BleakError by a
\* read, or another exception.
RaisedNotFound == "UpdateFailed: Can't find device"
RaisedConnect == "UpdateFailed: Failed to connect"
RaisedLink == "TimeoutError or BleakError"
RaisedOther == "another exception"

\* The except blocks, lines 126-133: what they raise for what they catch.
ExceptBlocks(raised) == IF raised = RaisedLink THEN ErrFetch ELSE ErrUnexpected
\* who awaits the debounced poll: a command task, nobody, or the debouncer's
\* own cooldown timer
NoOwner == MaxCmds + 1
Deferred == MaxCmds + 2

----------------------------------------------------------------------------
(* lawn_mower.py *)

\* A mapper that forgets PENDING_START among the operating states.
GetActivityNoPendingStart(d) ==
    IF DOMAIN d = {} THEN None
    ELSE LET state == Get(d, "state")
             activity == Get(d, "activity")
         IN IF state = None \/ activity = None THEN None
            ELSE IF state = "PAUSED" THEN "PAUSED"
            ELSE IF state \in {"RESTRICTED", "IN_OPERATION"}
                 THEN (IF activity \in {"CHARGING", "PARKED", "NONE"} THEN "DOCKED"
                       ELSE IF activity \in {"GOING_OUT", "MOWING"} THEN "MOWING"
                       ELSE IF activity = "GOING_HOME" THEN "RETURNING"
                       ELSE "ERROR")
            ELSE "ERROR"

\* AutomowerLawnMower._get_activity
GetActivity(d) ==
    IF DOMAIN d = {} THEN None
    ELSE LET state == Get(d, "state")
             activity == Get(d, "activity")
         IN IF state = None \/ activity = None THEN None
            ELSE IF state = "PAUSED" THEN "PAUSED"
            ELSE IF state \in {"STOPPED", "OFF", "WAIT_FOR_SAFETYPIN"} THEN "ERROR"
            ELSE IF /\ state \in {"RESTRICTED", "IN_OPERATION", "PENDING_START"}
                    /\ activity \in {"CHARGING", "PARKED", "NONE"}
                 THEN "DOCKED"
            ELSE IF /\ state \in {"RESTRICTED", "IN_OPERATION", "PENDING_START"}
                    /\ activity \in {"GOING_OUT", "MOWING"}
                 THEN "MOWING"
            ELSE IF /\ state \in {"RESTRICTED", "IN_OPERATION", "PENDING_START"}
                    /\ activity = "GOING_HOME"
                 THEN "RETURNING"
            ELSE "ERROR"

\* HusqvarnaAutomowerBleEntity.available (entity.py 20-27), the property
\* through which the entity reports whether it is available.
Available(S) ==
    IF S.clock.lastSuccess = NoStamp THEN FALSE
    ELSE S.clock.now - S.clock.lastSuccess < Window

\* The entities of the entry are added to Home Assistant and listen to the
\* coordinator (forwarded by async_setup_entry, not unloaded since).
Listening(S) == S.entry.forwarded

\* AutomowerLawnMower._handle_coordinator_update, called for a listening
\* entity.
UpdateListeners(S) ==
    IF Listening(S)
        THEN [S EXCEPT !.attrActivity = GetActivity(S.data),
                       !.attrAvailable = GetActivity(S.data) # None /\ Available(S)]
        ELSE S

----------------------------------------------------------------------------
(* The state as a record, and its application to the variables *)

Cur ==
    [connected |-> connected, cmdInProgress |-> cmdInProgress, data |-> data,
     attrActivity |-> attrActivity, attrAvailable |-> attrAvailable,
     clock |-> clock, timerArmed |-> timerArmed,
     dbTimer |-> dbTimer, dbPending |-> dbPending, ppc |-> ppc, pidx |-> pidx,
     pdata |-> pdata, pexc |-> pexc, powner |-> powner, lastExc |-> lastExc,
     cpc |-> cpc,
     ckind |-> ckind, cprog |-> cprog, cres |-> cres, reqFor |-> reqFor,
     entry |-> entry, flow |-> flow]

Apply(T) ==
    /\ connected' = T.connected
    /\ cmdInProgress' = T.cmdInProgress
    /\ data' = T.data
    /\ attrActivity' = T.attrActivity
    /\ attrAvailable' = T.attrAvailable
    /\ clock' = T.clock
    /\ timerArmed' = T.timerArmed
    /\ dbTimer' = T.dbTimer
    /\ dbPending' = T.dbPending
    /\ ppc' = T.ppc
    /\ pidx' = T.pidx
    /\ pdata' = T.pdata
    /\ pexc' = T.pexc
    /\ powner' = T.powner
    /\ lastExc' = T.lastExc
    /\ cpc' = T.cpc
    /\ ckind' = T.ckind
    /\ cprog' = T.cprog
    /\ cres' = T.cres
    /\ reqFor' = T.reqFor
    /\ entry' = T.entry
    /\ flow' = T.flow

----------------------------------------------------------------------------
(* The end of a command operation *)

\* The command returns: an entity command sets _attr_activity from the
\* Snapshot (lawn_mower.py 164-165); execute_command_with_refresh runs its
\* finally block (coordinator.py 96-97).
\* The task is free again; what its operation was is kept in cres only.
\* (cprog keeps whether the operation had written its verb and waited.)
CmdEnd(S, c, how) ==
    [S EXCEPT !.cpc[c] = "idle", !.cres[c] = Res(S, c, how), !.ckind[c] = "none",
              !.cprog[c] = IF @ = "settled" THEN @ ELSE "none"]

CmdFinish(S, c) ==
    IF S.ckind[c] = "exec"
        THEN CmdEnd([S EXCEPT !.cmdInProgress = FALSE], c, "returned")
        ELSE CmdEnd([S EXCEPT !.attrActivity = GetActivity(S.data)], c, "returned")

\* A finally block that releases the flag on the normal path only.
CmdRaiseFlagKept(S, c) == CmdEnd(S, c, "raised")

\* An awaited call raises inside the command: no command catches anything;
\* execute_command_with_refresh runs its finally block on the way out.
CmdRaise(S, c) ==
    IF S.ckind[c] = "exec"
        THEN CmdEnd([S EXCEPT !.cmdInProgress = FALSE], c, "raised")
        ELSE CmdEnd(S, c, "raised")

\* A command that writes its verb whatever _ensure_connected returned.
CmdNoopCallsVerb(S, c) == [S EXCEPT !.cpc[c] = "verb"]

\* _ensure_connected returned False: the entity command returns at once.
CmdNoop(S, c) == CmdEnd(S, c, "noop")

----------------------------------------------------------------------------
(* coordinator.py: _async_update_data, and the refresh that runs it *)

\* A poll that hands its dict over however it ended.
PublishedAlways(S, p, exc) == S.pdata[p]

\* The Snapshot after the poll has ended: the dict it returned (line 139), or
\* the Snapshot there was when it raised.
Published(S, p, exc) == IF exc = NoExc THEN S.pdata[p] ELSE S.data

\* async_setup_entry after its first refresh (__init__.py 82-90): the refresh
\* raised and setup raises ConfigEntryNotReady, or the coordinator is stored
\* in the registry and the platforms are forwarded.
AfterFirstRefresh(e, exc) ==
    IF e.spc # "refresh" THEN e
    ELSE IF exc = NoExc THEN [e EXCEPT !.spc = "forward", !.registered = TRUE]
    ELSE [e EXCEPT !.spc = "not_ready"]

\* The poll has ended with exception exc (NoExc: it returned its dict).  The
\* coordinator's refresh stores the returned dict, re-arms the interval timer
\* and updates the listeners; the debouncer starts its cooldown and releases
\* its lock, and the command awaiting async_request_refresh runs on.
PollReturn(S, p, exc) ==
    LET S1 == [S EXCEPT !.ppc[p] = "idle", !.pidx[p] = 0, !.pexc[p] = NoExc,
                        !.pdata[p] = EmptyDict,
                        !.data = Published(S, p, exc),
                        !.clock.okAt = IF exc = NoExc THEN S.clock.lastSuccess ELSE @,
                        !.lastExc = exc,
                        !.timerArmed = Listening(S) /\ ~S.entry.shut,
                        !.entry = AfterFirstRefresh(S.entry, exc)]
        S2 == UpdateListeners(S1)
        S3 == [S2 EXCEPT !.powner = NoOwner, !.reqFor = {}]
    IN  IF p = "sched" THEN {S2}
        ELSE IF S.powner \in Cmds
            THEN {CmdFinish([S3 EXCEPT !.dbTimer = ~S.entry.shut], S.powner),
                  CmdRaise(S3, S.powner)}
        ELSE {[S3 EXCEPT !.dbTimer = ~S.entry.shut]}

\* The finally block, lines 134-137: the poll awaits disconnect, or ends.
PollFinally(S, p, exc) ==
    IF ~S.cmdInProgress /\ S.connected
        THEN {[S EXCEPT !.ppc[p] = "disc", !.pidx[p] = 0, !.pexc[p] = exc]}
        ELSE PollReturn(S, p, exc)

\* A poll that goes on to its next read when a read has raised.
PollFailKeepsReading(S, p, raised) ==
    IF S.ppc[p] = "read" /\ S.pidx[p] < NumReads
        THEN {[S EXCEPT !.pidx[p] = @ + 1]}
        ELSE PollFinally(UpdateListeners(S), p, ExceptBlocks(raised))

\* An exception is raised inside the try block: the except block that
\* catches it updates the listeners and raises UpdateFailed.
PollFail(S, p, raised) == PollFinally(UpdateListeners(S), p, ExceptBlocks(raised))

\* Line 110: the first read is called.
PollFirstRead(S, p) == [S EXCEPT !.ppc[p] = "read", !.pidx[p] = 1]

\* _async_find_device from the point where a device is there: connect is
\* called (line 76).
PollCallConnect(S, p) == [S EXCEPT !.ppc[p] = "connect"]

\* A refresh starts: the coordinator cancels its interval timer and the
\* debouncer's cooldown, and _async_update_data runs to its first await
\* (lines 103-110; _async_find_device lines 68-76: the device comes from the
\* Bluetooth cache, or get_device is awaited).
BeginPoll(S, p, owner) ==
    LET S1 == [S EXCEPT !.timerArmed = FALSE, !.dbTimer = FALSE,
                        !.dbPending = FALSE, !.pdata[p] = EmptyDict,
                        !.pexc[p] = NoExc,
                        !.powner = IF p = "req" THEN owner ELSE @,
                        !.reqFor = IF p = "req" \/ S.ppc["req"] # "idle"
                                       THEN @ ELSE {}]
    IN  IF S.connected THEN {PollFirstRead(S1, p)}
        ELSE {PollCallConnect(S1, p), [S1 EXCEPT !.ppc[p] = "resolve"]}

\* await self.async_request_refresh(): the debouncer defers the refresh while
\* its cooldown runs, drops it while a debounced refresh is in progress or
\* after the coordinator was shut down, and otherwise runs it now, the command
\* waiting for it.
RequestRefresh(S, c) ==
    IF S.entry.shut THEN {CmdFinish(S, c)}
    ELSE IF S.dbTimer
        THEN {CmdFinish([S EXCEPT !.dbPending = TRUE, !.reqFor = @ \cup {c}], c)}
    ELSE IF S.ppc["req"] # "idle" THEN {CmdFinish(S, c)}
    ELSE BeginPoll([S EXCEPT !.cpc[c] = "refresh", !.reqFor = {c}], "req", c)

\* mower.connect: OK and connected, or a failure (another result code, or a
\* raised TimeoutError/BleakError) that may leave the link up or down.
ConnectOutcomes ==
    {[res |-> "ok", link |-> TRUE]}
        \cup {[res |-> r, link |-> l] : r \in {"not_ok", "raise"}, l \in BOOLEAN}

\* The interval timer fires (update_interval = SCAN_INTERVAL, lines 42-47).
TimerFire ==
    /\ timerArmed
    /\ ppc["sched"] = "idle"
    /\ \E T \in BeginPoll(Cur, "sched", NoOwner) : Apply(T)

\* The debouncer's cooldown ends: a deferred request (line 94, lawn_mower.py
\* 162) is run now unless a debounced refresh is in progress.
CooldownEnd ==
    /\ dbTimer
    /\ LET S1 == [Cur EXCEPT !.dbTimer = FALSE, !.dbPending = FALSE]
       IN  IF dbPending /\ ppc["req"] = "idle"
               THEN \E T \in BeginPoll(S1, "req", Deferred) : Apply(T)
               ELSE Apply([S1 EXCEPT !.reqFor = {}])

\* get_device returns (lines 70-73): a device, or none and UpdateFailed
\* ("Can't find device") is raised into the except block of line 130.
PollResolveDone(p) ==
    /\ ppc[p] = "resolve"
    /\ \/ Apply(PollCallConnect(Cur, p))
       \/ \E T \in PollFail(Cur, p, RaisedNotFound) : Apply(T)

\* mower.connect returns or raises (lines 75-81): every failure is raised as
\* UpdateFailed ("Failed to connect") into the except block of line 130.
PollConnectDone(p) ==
    /\ ppc[p] = "connect"
    /\ \E o \in ConnectOutcomes :
        LET S1 == [Cur EXCEPT !.connected = o.link]
        IN  IF o.res = "ok" THEN Apply(PollFirstRead(S1, p))
            ELSE \E T \in PollFail(S1, p, RaisedConnect) :
                    Apply(T)

\* The read in flight returns its value and the next one is called, or after
\* the last one (line 122) the poll leaves the try block; or the read raises.
PollReadOk(S, p, v) ==
    LET k == S.pidx[p]
        f == FieldNames[k]
        d == [g \in DOMAIN S.pdata[p] \cup {f} |->
                 IF g = f THEN v ELSE S.pdata[p][g]]
        S1 == [S EXCEPT !.pdata[p] = d]
    IN  IF k < NumReads THEN {[S1 EXCEPT !.pidx[p] = k + 1]}
        ELSE PollFinally([S1 EXCEPT !.clock.lastSuccess = S.clock.now], p, NoExc)

PollReadDone(p, wide) ==
    /\ ppc[p] = "read"
    /\ \/ \E v \in ReadValues(FieldNames[pidx[p]], wide) :
            \E T \in PollReadOk(Cur, p, v) : Apply(T)
       \/ \E T \in PollFail(Cur, p, RaisedLink) : Apply(T)
       \/ \E T \in PollFail(Cur, p, RaisedOther) : Apply(T)

\* The disconnect of the finally block returns, or raises.
PollDiscDone(p) ==
    /\ ppc[p] = "disc"
    /\ \/ \E T \in PollReturn([Cur EXCEPT !.connected = FALSE], p, pexc[p]) : Apply(T)
       \/ \E l \in BOOLEAN :
            \E T \in PollReturn([Cur EXCEPT !.connected = l], p, ErrDisconnect) :
                Apply(T)

----------------------------------------------------------------------------
(* lawn_mower.py: the entity commands; coordinator.py:                     *)
(* execute_command_with_refresh                                            *)

\* The verb of the command is called on the Device Link.
CallVerb(S, c) == [S EXCEPT !.cpc[c] = "verb"]

\* An entity command is called: _ensure_connected runs to its first await
\* (lines 245-256), or returns True and the verb is called.
EntityStart(S, c, k) ==
    LET S1 == [S EXCEPT !.ckind[c] = k, !.cres[c] = NoRes, !.cprog[c] = "started",
                        !.reqFor = @ \ {c}]
    IN  IF S.connected THEN {CallVerb(S1, c)}
        ELSE {[S1 EXCEPT !.cpc[c] = "econnect"], [S1 EXCEPT !.cpc[c] = "eresolve"]}

\* execute_command_with_refresh is called (lines 85-88): the flag is set and
\* command_func, a verb of the mower, is called.
ExecStart(S, c) ==
    {CallVerb([S EXCEPT !.ckind[c] = "exec", !.cres[c] = NoRes,
                        !.cprog[c] = "started", !.reqFor = @ \ {c},
                        !.cmdInProgress = TRUE], c)}

CmdStart(c, ops) ==
    /\ cpc[c] = "idle"
    /\ Listening(Cur)
    /\ \/ \E k \in ops \ {"exec"} : \E T \in EntityStart(Cur, c, k) : Apply(T)
       \/ "exec" \in ops /\ \E T \in ExecStart(Cur, c) : Apply(T)

\* get_device returns in _ensure_connected (lines 251-254).
CmdResolveDone(c) ==
    /\ cpc[c] = "eresolve"
    /\ \/ Apply([Cur EXCEPT !.cpc[c] = "econnect"])
       \/ Apply(CmdNoop(Cur, c))

\* mower.connect returns or raises in _ensure_connected (lines 256-260).
CmdConnectDone(c) ==
    /\ cpc[c] = "econnect"
    /\ \E o \in ConnectOutcomes :
        LET S1 == [Cur EXCEPT !.connected = o.link]
        IN  CASE o.res = "ok" -> Apply(CallVerb(S1, c))
              [] o.res = "not_ok" -> Apply(CmdNoop(S1, c))
              [] o.res = "raise" -> Apply(CmdRaise(S1, c))

\* After the verb: async_start_mowing calls override when the displayed
\* activity is Docked (lines 152-153); then the settle delay is awaited.
Settle(S, c) == [S EXCEPT !.cpc[c] = "sleep", !.cprog[c] = "written"]

\* A start_mowing that writes override whatever is displayed.
AfterVerbAlwaysOverrides(S, c) ==
    IF S.ckind[c] = "start_mowing"
        THEN [S EXCEPT !.cpc[c] = "override"]
        ELSE Settle(S, c)

AfterVerb(S, c) ==
    IF S.ckind[c] = "start_mowing" /\ S.attrActivity = "DOCKED"
        THEN [S EXCEPT !.cpc[c] = "override"]
        ELSE Settle(S, c)

\* A command that requests its refresh as soon as the verb is written.
CmdVerbDoneNoSettle(c) ==
    /\ cpc[c] = "verb"
    /\ \E T \in RequestRefresh([Cur EXCEPT !.cprog[c] = "written"], c) : Apply(T)

\* The verb write returns or raises.
CmdVerbDone(c) ==
    /\ cpc[c] = "verb"
    /\ \/ Apply(AfterVerb(Cur, c))
       \/ Apply(CmdRaise(Cur, c))

\* mower_override returns or raises (line 153).
CmdOverrideDone(c) ==
    /\ cpc[c] = "override"
    /\ \/ Apply(Settle(Cur, c))
       \/ Apply(CmdRaise(Cur, c))

\* The settle delay is over.  An entity command disconnects a connected link
\* (lines 159-160) before it requests the refresh (line 162);
\* execute_command_with_refresh requests the refresh (line 94).
AfterSleep(S, c) ==
    LET S1 == [S EXCEPT !.cprog[c] = "settled"]
    IN  IF S.ckind[c] # "exec" /\ S.connected
            THEN {[S1 EXCEPT !.cpc[c] = "edisc"]}
            ELSE RequestRefresh(S1, c)

CmdSleepDone(c) ==
    /\ cpc[c] = "sleep"
    /\ \E T \in AfterSleep(Cur, c) : Apply(T)

\* The entity command's disconnect returns, or raises.
CmdDiscDone(c) ==
    /\ cpc[c] = "edisc"
    /\ \/ \E T \in RequestRefresh([Cur EXCEPT !.connected = FALSE], c) : Apply(T)
       \/ \E l \in BOOLEAN : Apply(CmdRaise([Cur EXCEPT !.connected = l], c))

----------------------------------------------------------------------------
(* The result of mower.connect, and how the code tests it *)

\* Members of ResponseResult that connect returns.
ResponseResults == {"OK", "INVALID_PIN", "UNKNOWN_ERROR"}

\* The mower library fixes which member of ResponseResult, if any, has the
\* value 0 and so is false for `not`; it is the same for the whole run.
ZeroMembers == {"OK", "UNKNOWN_ERROR", "none"}

\* bool(r), as `if not await mower.connect(device)` takes it
\* (__init__.py 58, config_flow.py 117).
Truthy(S, r) == r # S.entry.zero

\* mower.connect returns r: OK with the link up, another member with the
\* link up or down.
ConnectLinks(r) == IF r = "OK" THEN {TRUE} ELSE BOOLEAN

----------------------------------------------------------------------------
(* config_flow.py: async_step_user *)

Addresses == {"", "AA"}

NoPin == [given |-> FALSE, value |-> 0]

PinChoices == {NoPin} \cup {[given |-> TRUE, value |-> v] : v \in {-1, 1234}}

\* user_input: None, or an address and an optional PIN.
NoInput == [given |-> FALSE, address |-> "", pin |-> NoPin]

UserInputs ==
    {NoInput} \cup {[given |-> TRUE, address |-> a, pin |-> q] :
                       a \in Addresses, q \in PinChoices}

\* Line 81-83; the schema makes the PIN an int.
InvalidPin(q) == q.given /\ q.value < 0

\* The step ends by showing the form with errors["base"] = err (lines
\* 159-168); "none": no error.
FlowForm(S, err) ==
    [S EXCEPT !.flow.pc = "idle", !.flow.errors = err, !.flow.result = "form"]

\* An awaited call raises inside the try block (lines 128-143): BleakError or
\* TimeoutError, or an exception that only the last except block catches.
FlowExcept(S, raised) ==
    FlowForm(S, IF raised = RaisedLink THEN "cannot_connect" ELSE "exception")

\* async_step_user is called (lines 73-105): it runs to its first await.
FlowStepUser(S, input) ==
    IF ~input.given THEN {FlowForm(S, "none")}
    ELSE LET S1 == [S EXCEPT !.flow.address = input.address,
                             !.flow.pin = input.pin,
                             !.flow.result = "none", !.flow.errors = "none"]
         IN  IF input.address = "" THEN {FlowForm(S1, "invalid_address")}
             ELSE IF InvalidPin(input.pin) THEN {FlowForm(S1, "invalid_pin")}
             ELSE {[S1 EXCEPT !.flow.pc = "create"], [S1 EXCEPT !.flow.pc = "resolve"]}

FlowSubmit ==
    /\ flow.pc = "idle"
    /\ flow.result # "entry"
    /\ \E input \in UserInputs : \E T \in FlowStepUser(Cur, input) : Apply(T)

\* get_device returns (lines 88-105); or it raises, outside the try block of
\* line 101, and the exception leaves the step.
FlowResolveDone ==
    /\ flow.pc = "resolve"
    /\ \/ Apply([Cur EXCEPT !.flow.pc = "create"])
       \/ Apply(FlowForm(Cur, "device_not_found"))
       \/ Apply([Cur EXCEPT !.flow.pc = "idle", !.flow.result = "raised"])

\* The executor job create_mower returns a new Mower (lines 103-110).
FlowCreateDone ==
    /\ flow.pc = "create"
    /\ \/ Apply([Cur EXCEPT !.flow.pc = "probe", !.flow.link = FALSE])
       \/ Apply(FlowExcept(Cur, RaisedOther))

\* probe_gatts returns manufacture and device_type, either may be None
\* (lines 108-117); or it raises.
FlowProbeDone ==
    /\ flow.pc = "probe"
    /\ \/ \E manufacture, device_type \in {None, "v"} :
            IF manufacture = None \/ device_type = None
                THEN Apply(FlowForm(Cur, "cannot_connect"))
                ELSE Apply([Cur EXCEPT !.flow.pc = "connect"])
       \/ \E raised \in {RaisedLink, RaisedOther} : Apply(FlowExcept(Cur, raised))

\* mower.connect returns or raises (lines 117-123).
FlowConnectDone ==
    /\ flow.pc = "connect"
    /\ \/ \E r \in ResponseResults : \E l \in ConnectLinks(r) :
            LET S1 == [Cur EXCEPT !.flow.connres = r, !.flow.link = l]
            IN  IF ~Truthy(S1, r) THEN Apply(FlowForm(S1, "invalid_connection"))
                ELSE Apply([S1 EXCEPT !.flow.pc = "disconnect"])
       \/ \E raised \in {RaisedLink, RaisedOther} : \E l \in BOOLEAN :
            Apply(FlowExcept([Cur EXCEPT !.flow.connres = "raised", !.flow.link = l],
                             raised))

\* mower.disconnect returns and the entry is created (lines 123-157), or it
\* raises.
FlowDisconnectDone ==
    /\ flow.pc = "disconnect"
    /\ \/ Apply([Cur EXCEPT !.flow.pc = "idle", !.flow.link = FALSE,
                            !.flow.result = "entry"])
       \/ \E raised \in {RaisedLink, RaisedOther} : \E l \in BOOLEAN :
            Apply(FlowExcept([Cur EXCEPT !.flow.link = l], raised))

FlowNext ==
    \/ FlowSubmit
    \/ FlowResolveDone
    \/ FlowCreateDone
    \/ FlowProbeDone
    \/ FlowConnectDone
    \/ FlowDisconnectDone

----------------------------------------------------------------------------
(* __init__.py: async_setup_entry *)

\* Setup raises ConfigEntryNotReady; Home Assistant will call it again.
NotReady(S) == [S EXCEPT !.entry.spc = "not_ready"]

\* async_setup_entry is called for the entry the flow created (lines 30-40):
\* it awaits the executor job that makes a new Mower.
SetupStart ==
    /\ flow.result = "entry"
    /\ entry.spc \in {"none", "not_ready"}
    /\ Apply([Cur EXCEPT !.entry.spc = "executor", !.entry.sconn = "none",
                         !.connected = FALSE])

\* Line 42 is awaited.
SetupMowerMade ==
    /\ entry.spc = "executor"
    /\ Apply([Cur EXCEPT !.entry.spc = "stale"])

\* Lines 50-58: the device comes from the Bluetooth cache and connect is
\* called, or get_device is awaited.
SetupStaleClosed ==
    /\ entry.spc = "stale"
    /\ \/ Apply([Cur EXCEPT !.entry.spc = "connect"])
       \/ Apply([Cur EXCEPT !.entry.spc = "resolve"])

\* get_device returns (lines 52-58), or raises (line 61).
SetupResolveDone ==
    /\ entry.spc = "resolve"
    /\ \/ Apply([Cur EXCEPT !.entry.spc = "connect"])
       \/ Apply(NotReady(Cur))

\* mower.connect returns (lines 58-69), or raises BleakError or TimeoutError
\* (lines 61-63).
SetupConnectDone ==
    /\ entry.spc = "connect"
    /\ \/ \E r \in ResponseResults : \E l \in ConnectLinks(r) :
            LET S1 == [Cur EXCEPT !.entry.sconn = r, !.connected = l]
            IN  IF ~Truthy(S1, r) THEN Apply(NotReady(S1))
                ELSE Apply([S1 EXCEPT !.entry.spc = "manufacturer"])
       \/ \E l \in BOOLEAN :
            Apply(NotReady([Cur EXCEPT !.entry.sconn = "raised", !.connected = l]))

\* HusqvarnaCoordinator.__init__ (coordinator.py 31-55) and the base class:
\* no data, no timestamp, no command in progress, no timer.
NewCoordinator(S) ==
    [S EXCEPT !.cmdInProgress = FALSE, !.data = EmptyDict,
              !.clock.lastSuccess = NoStamp, !.clock.okAt = NoStamp,
              !.lastExc = NoExc, !.timerArmed = FALSE, !.dbTimer = FALSE,
              !.dbPending = FALSE]

\* A read of manufacturer, model or serial number returns (lines 69-83) or
\* raises (lines 73-75).  After the last one the coordinator is made and its
\* first refresh runs _async_update_data.
SetupDetailDone ==
    /\ entry.spc \in {"manufacturer", "model", "serial"}
    /\ \/ /\ entry.spc = "manufacturer"
          /\ Apply([Cur EXCEPT !.entry.spc = "model"])
       \/ /\ entry.spc = "model"
          /\ Apply([Cur EXCEPT !.entry.spc = "serial"])
       \/ /\ entry.spc = "serial"
          /\ \E T \in BeginPoll(NewCoordinator([Cur EXCEPT !.entry.spc = "refresh"]),
                                "sched", NoOwner) : Apply(T)
       \/ Apply(NotReady(Cur))

\* async_forward_entry_setups returns (lines 90-92): the entities are added
\* (lawn_mower.py 129-134) and listen to the coordinator, whose interval timer
\* starts with its first listener.
SetupForwardDone ==
    /\ entry.spc = "forward"
    /\ LET S1 == [Cur EXCEPT !.entry.spc = "done", !.entry.forwarded = TRUE]
       IN  Apply([UpdateListeners(S1) EXCEPT !.timerArmed = TRUE])

SetupNext ==
    \/ SetupStart
    \/ SetupMowerMade
    \/ SetupStaleClosed
    \/ SetupResolveDone
    \/ SetupConnectDone
    \/ SetupDetailDone
    \/ SetupForwardDone

----------------------------------------------------------------------------
(* coordinator.py: async_shutdown; __init__.py: async_unload_entry *)

\* async_shutdown returns, after its disconnect or without one: the call is
\* over, and so is the unload that awaited it (__init__.py 99-101).
ShutdownReturn(S) ==
    [S EXCEPT !.entry.shpc = "idle",
              !.entry.shres = IF @ = "none" THEN "disconnected" ELSE "returned",
              !.entry.upc = IF @ = "shutdown" THEN "done" ELSE @]

\* A shutdown that disconnects whatever is_connected says.
ShutdownCallAlwaysDisconnects(S) ==
    [S EXCEPT !.entry.shut = TRUE, !.entry.shutdowns = @ + 1,
              !.timerArmed = FALSE, !.dbTimer = FALSE, !.dbPending = FALSE,
              !.entry.shpc = "sdisc", !.entry.shres = "none",
              !.entry.shdiscs = @ + 1]

\* async_shutdown is called (coordinator.py 57-62): the base class marks the
\* coordinator shut down and cancels the interval timer and the debouncer
\* (line 60); a connected link is disconnected (lines 61-62), otherwise the
\* call returns.
ShutdownCall(S) ==
    LET S1 == [S EXCEPT !.entry.shut = TRUE, !.entry.shutdowns = @ + 1,
                        !.timerArmed = FALSE, !.dbTimer = FALSE,
                        !.dbPending = FALSE]
    IN  IF S.connected
            THEN [S1 EXCEPT !.entry.shpc = "sdisc", !.entry.shres = "none",
                            !.entry.shdiscs = @ + 1]
            ELSE ShutdownReturn([S1 EXCEPT !.entry.shres = "returned"])

\* async_unload_entry is called for the entry that was set up (line 97): it
\* awaits the unload of the platforms.
UnloadStart ==
    /\ entry.spc = "done"
    /\ entry.upc = "idle"
    /\ Apply([Cur EXCEPT !.entry.upc = "platforms"])

\* async_unload_platforms returns (lines 97-101).  True: the entities are
\* removed, and with its last listener the coordinator has dropped its timer
\* and the debouncer's; the coordinator is popped from the registry and
\* async_shutdown is called.  False: unload returns False.
UnloadPlatformsDone ==
    /\ entry.upc = "platforms"
    /\ \/ Apply(ShutdownCall([Cur EXCEPT !.entry.upc = "shutdown",
                                         !.entry.forwarded = FALSE,
                                         !.entry.registered = FALSE,
                                         !.timerArmed = FALSE,
                                         !.dbTimer = FALSE,
                                         !.dbPending = FALSE]))
       \/ Apply([Cur EXCEPT !.entry.upc = "failed"])

\* async_shutdown is called again on the coordinator of the unloaded entry.
ShutdownAgain ==
    /\ entry.upc = "done"
    /\ entry.shpc = "idle"
    /\ entry.shutdowns < MaxShutdowns
    /\ Apply(ShutdownCall(Cur))

\* The disconnect of async_shutdown (line 62) returns, or raises: the
\* exception leaves async_shutdown and the unload that awaited it.
ShutdownDiscDone ==
    /\ entry.shpc = "sdisc"
    /\ \/ Apply(ShutdownReturn([Cur EXCEPT !.connected = FALSE]))
       \/ \E l \in BOOLEAN :
            Apply([Cur EXCEPT !.connected = l, !.entry.shpc = "idle",
                              !.entry.shres = "raised",
                              !.entry.upc = IF @ = "shutdown" THEN "raised" ELSE @])

UnloadNext ==
    \/ UnloadStart
    \/ UnloadPlatformsDone
    \/ ShutdownAgain
    \/ ShutdownDiscDone

----------------------------------------------------------------------------
(* The system *)

\* The config flow has created the entry, with an address and a PIN.
FlowFinished ==
    [pc |-> "idle", address |-> "AA", pin |-> [given |-> TRUE, value |-> 1234],
     errors |-> "none", result |-> "entry", link |-> FALSE, connres |-> "OK"]

\* async_setup_entry has returned True: the coordinator is in the registry,
\* the platforms are forwarded, nothing is unloaded or shut down.
EntrySetUp ==
    [spc |-> "done", sconn |-> "OK", registered |-> TRUE, forwarded |-> TRUE,
     zero |-> "none", upc |-> "idle", shpc |-> "idle", shres |-> "none",
     shut |-> FALSE, shutdowns |-> 0, shdiscs |-> 0]

\* The state in which the entry has been set up and its entities added: the
\* first refresh has published a Snapshot and its finally block has
\* disconnected the link; the interval timer runs.
FirstSnapshots ==
    {[f \in {FieldNames[i] : i \in 1..NumReads} |->
         IF f = "state" THEN s ELSE IF f = "activity" THEN a ELSE "v"] :
     s \in ReadValues("state", FALSE), a \in ReadValues("activity", FALSE)}

InitWith(snapshots) ==
    /\ connected = FALSE
    /\ cmdInProgress = FALSE
    /\ data \in snapshots
    /\ attrActivity = GetActivity(data)
    /\ attrAvailable = (attrActivity # None)
    /\ clock = [now |-> 0, lastSuccess |-> 0, okAt |-> 0]
    /\ timerArmed = TRUE
    /\ dbTimer = FALSE
    /\ dbPending = FALSE
    /\ ppc = [p \in Polls |-> "idle"]
    /\ pidx = [p \in Polls |-> 0]
    /\ pdata = [p \in Polls |-> EmptyDict]
    /\ pexc = [p \in Polls |-> NoExc]
    /\ powner = NoOwner
    /\ lastExc = NoExc
    /\ cpc = [c \in Cmds |-> "idle"]
    /\ ckind = [c \in Cmds |-> "none"]
    /\ cprog = [c \in Cmds |-> "none"]
    /\ cres = [c \in Cmds |-> NoRes]
    /\ reqFor = {}
    /\ entry = EntrySetUp
    /\ flow = FlowFinished

Init == InitWith(FirstSnapshots)

\* The steps of the polls; wide: the reads return every value of the enums.
PollNext(wide) ==
    \/ TimerFire
    \/ \E p \in Polls : PollResolveDone(p)
    \/ \E p \in Polls : PollConnectDone(p)
    \/ \E p \in Polls : PollReadDone(p, wide)
    \/ \E p \in Polls : PollDiscDone(p)

\* One task runs entity commands and execute_command_with_refresh, beside the
\* interval timer and the debouncer.
Next ==
    \/ PollNext(FALSE)
    \/ CooldownEnd
    \/ \E c \in Cmds : CmdStart(c, AnyOps[c])
    \/ \E c \in Cmds : CmdResolveDone(c)
    \/ \E c \in Cmds : CmdConnectDone(c)
    \/ \E c \in Cmds : CmdVerbDone(c)
    \/ \E c \in Cmds : CmdOverrideDone(c)
    \/ \E c \in Cmds : CmdSleepDone(c)
    \/ \E c \in Cmds : CmdDiscDone(c)

Spec == Init /\ [][Next]_vars

\* Every task runs execute_command_with_refresh, beside the interval timer
\* and the debouncer.
NextExec ==
    \/ PollNext(FALSE)
    \/ CooldownEnd
    \/ \E c \in Cmds : CmdStart(c, ExecOps[c])
    \/ \E c \in Cmds : CmdVerbDone(c)
    \/ \E c \in Cmds : CmdSleepDone(c)

SpecExec == Init /\ [][NextExec]_vars

\* The interval polls alone, their reads returning every value of the enums;
\* at the start there is a first Snapshot, or none yet.
NextMapper == PollNext(TRUE)

InitMapper == InitWith(FirstSnapshots \cup {EmptyDict})

SpecMapper == InitMapper /\ [][NextMapper]_vars

\* Nothing is configured yet: the config flow has not run, there is no
\* entry, no coordinator and no entity.
InitEntry ==
    /\ connected = FALSE
    /\ cmdInProgress = FALSE
    /\ data = EmptyDict
    /\ attrActivity = None
    /\ attrAvailable = FALSE
    /\ clock = [now |-> 0, lastSuccess |-> NoStamp, okAt |-> NoStamp]
    /\ timerArmed = FALSE
    /\ dbTimer = FALSE
    /\ dbPending = FALSE
    /\ ppc = [p \in Polls |-> "idle"]
    /\ pidx = [p \in Polls |-> 0]
    /\ pdata = [p \in Polls |-> EmptyDict]
    /\ pexc = [p \in Polls |-> NoExc]
    /\ powner = NoOwner
    /\ lastExc = NoExc
    /\ cpc = [c \in Cmds |-> "idle"]
    /\ ckind = [c \in Cmds |-> "none"]
    /\ cprog = [c \in Cmds |-> "none"]
    /\ cres = [c \in Cmds |-> NoRes]
    /\ reqFor = {}
    /\ \E z \in ZeroMembers :
          entry = [spc |-> "none", sconn |-> "none", registered |-> FALSE,
                   forwarded |-> FALSE, zero |-> z, upc |-> "idle",
                   shpc |-> "idle", shres |-> "none", shut |-> FALSE,
                   shutdowns |-> 0, shdiscs |-> 0]
    /\ flow = [pc |-> "idle", address |-> "", pin |-> NoPin, errors |-> "none",
               result |-> "none", link |-> FALSE, connres |-> "none"]

\* The config flow, the setup of the entry it creates, and the polls.
NextEntry ==
    \/ FlowNext
    \/ SetupNext
    \/ PollNext(FALSE)

SpecEntry == InitEntry /\ [][NextEntry]_vars

\* The interval polls; the entry is unloaded, and its coordinator shut down
\* again.
NextUnload ==
    \/ PollNext(FALSE)
    \/ UnloadNext

SpecUnload == Init /\ [][NextUnload]_vars

\* Task 1 runs async_start_mowing, beside the interval timer and the
\* debouncer; the first Snapshot is one displayed as Docked, Mowing,
\* Returning, Paused, Error or absent.
StartOps == [c \in Cmds |-> IF c = 1 THEN {"start_mowing"} ELSE {}]

StartReadings ==
    {<<"IN_OPERATION", "PARKED">>, <<"IN_OPERATION", "MOWING">>,
     <<"IN_OPERATION", "GOING_HOME">>, <<"IN_OPERATION", None>>,
     <<"PAUSED", "MOWING">>, <<"STOPPED", "MOWING">>}

StartSnapshots ==
    {[f \in {FieldNames[i] : i \in 1..NumReads} |->
         IF f = "state" THEN r[1] ELSE IF f = "activity" THEN r[2] ELSE "v"] :
     r \in StartReadings}

InitStart == InitWith(StartSnapshots)

NextStart ==
    \/ PollNext(FALSE)
    \/ CooldownEnd
    \/ \E c \in Cmds : CmdStart(c, StartOps[c])
    \/ \E c \in Cmds : CmdResolveDone(c)
    \/ \E c \in Cmds : CmdConnectDone(c)
    \/ \E c \in Cmds : CmdVerbDone(c)
    \/ \E c \in Cmds : CmdOverrideDone(c)
    \/ \E c \in Cmds : CmdSleepDone(c)
    \/ \E c \in Cmds : CmdDiscDone(c)

SpecStart == InitStart /\ [][NextStart]_vars

\* Task 1 runs execute_command_with_refresh, beside the interval timer and
\* the debouncer.  The event loop runs every callback that is due and every
\* awaited call comes back: the timer fires, the cooldown ends, and each call
\* in flight returns or raises.  When a command is called is up to the user.
LiveOps == [c \in Cmds |-> IF c = 1 THEN {"exec"} ELSE {}]

NextLive ==
    \/ PollNext(FALSE)
    \/ CooldownEnd
    \/ \E c \in Cmds : CmdStart(c, LiveOps[c])
    \/ \E c \in Cmds : CmdVerbDone(c)
    \/ \E c \in Cmds : CmdSleepDone(c)

Fairness ==
    /\ WF_vars(TimerFire)
    /\ WF_vars(CooldownEnd)
    /\ \A p \in Polls : WF_vars(PollResolveDone(p))
    /\ \A p \in Polls : WF_vars(PollConnectDone(p))
    /\ \A p \in Polls : WF_vars(PollReadDone(p, FALSE))
    /\ \A p \in Polls : WF_vars(PollDiscDone(p))
    /\ \A c \in Cmds : WF_vars(CmdVerbDone(c))
    /\ \A c \in Cmds : WF_vars(CmdSleepDone(c))

SpecLive == Init /\ [][NextLive]_vars /\ Fairness

\* A minute passes.
Tick ==
    /\ clock.now < MaxTime
    /\ Apply([Cur EXCEPT !.clock.now = @ + 1])

\* The interval polls and the clock.
NextClock ==
    \/ PollNext(FALSE)
    \/ Tick

SpecClock == Init /\ [][NextClock]_vars

----------------------------------------------------------------------------
(* Properties *)

PollEnds(p) == ppc[p] # "idle" /\ ppc'[p] = "idle"

\* A call of the coroutine is in flight on the Device Link.
PollOnLink(p) == ppc[p] \in {"connect", "read", "disc"}
CmdOnLink(c) == cpc[c] \in {"econnect", "verb", "override"}

\* The command has made sure of the connection and its verb write is not over.
InSession(c) == cpc[c] \in {"verb", "override"}

ExecInProgress(c) == ckind[c] = "exec" /\ cpc[c] # "idle"

AllFields == {FieldNames[i] : i \in 1..NumReads}

\* C1: a poll that ends with a failure (in connecting, in any read, in its
\* cleanup) leaves the Snapshot as it is; the Snapshot changes only in the
\* step in which a poll returns without a failure, and then to a dict of all
\* eight fields that holds what this poll has read.
C1_FailedPollPublishesNothing ==
    [][/\ \A p \in Polls : (PollEnds(p) /\ lastExc' # NoExc) => data' = data
       /\ data' # data =>
            \E p \in Polls : /\ PollEnds(p)
                             /\ lastExc' = NoExc
                             /\ Cardinality(DOMAIN pdata[p]) >= NumReads - 1
                             /\ DOMAIN data' = AllFields
                             /\ \A f \in DOMAIN pdata[p] : data'[f] = pdata[p][f]]_vars

\* C1 witness: a poll that had read four fields, one of them unlike the
\* Snapshot's, has failed and waits in its cleanup; the Snapshot is complete.
C1_Witness ==
    \E p \in Polls :
        /\ ppc[p] = "disc"
        /\ pexc[p] = ErrFetch
        /\ Cardinality(DOMAIN pdata[p]) = 5
        /\ pdata[p]["activity"] # data["activity"]
        /\ DOMAIN data = AllFields

\* C2: at most one execution of _async_update_data is in flight.
C2_AtMostOnePoll == Cardinality({p \in Polls : ppc[p] # "idle"}) <= 1

\* C3: no command has a connect or a verb write in flight on the Device Link
\* while a poll has a connect, a read or a disconnect in flight on it.
C3_LinkOpsSerialized == \A p \in Polls, c \in Cmds : ~(PollOnLink(p) /\ CmdOnLink(c))

\* C4: no poll's cleanup disconnect completes between the moment a command
\* has made sure of the connection and the end of its verb write.
C4_NoTeardownInSession ==
    [][\A p \in Polls :
          (ppc[p] = "disc" /\ PollEnds(p)) => \A c \in Cmds : ~InSession(c)]_vars

\* C5: in the step in which an execute_command_with_refresh operation ends,
\* by returning or by an exception, _command_in_progress is false afterwards.
C5_ExecAlwaysClearsFlag ==
    [][\A c \in Cmds : (ExecInProgress(c) /\ cpc'[c] = "idle") => ~cmdInProgress']_vars

\* C5 witness: an execute_command_with_refresh operation has ended by an
\* exception and the flag is false.
C5_Witness ==
    \E c \in Cmds : cres[c] = <<"exec", "raised">> /\ cpc[c] = "idle" /\ ~cmdInProgress

\* C6: _command_in_progress is true exactly when some
\* execute_command_with_refresh operation is in progress.
C6_FlagIffExecInProgress == cmdInProgress <=> \E c \in Cmds : ExecInProgress(c)

\* C7 as stated: a poll that ends while the flag is false leaves the link not
\* connected; a poll that ends while the flag is true has not called
\* disconnect.
C7_CleanupGatedAtReturn ==
    [][\A p \in Polls :
          PollEnds(p) => IF ~cmdInProgress THEN ~connected' ELSE ppc[p] # "disc"]_vars

\* C8: execute_command_with_refresh calls the verb only with the Device Link
\* connected.
C8_ExecConnectsFirst ==
    [][\A c \in Cmds :
          (cpc[c] = "idle" /\ cpc'[c] = "verb" /\ ckind'[c] = "exec") => connected']_vars

\* The operation of task c has written its verb and waited the settle delay.
Settled(c) == cprog[c] = "settled"

\* C9: the debounced refresh, pending or in flight, serves only requests of
\* operations that had written their verb and waited the settle delay; a
\* command that awaits the poll it forced is past both.
C9_ForcedRefreshAfterSettle ==
    /\ \A c \in reqFor : Settled(c)
    /\ \A c \in Cmds : powner = c => (c \in reqFor /\ cpc[c] = "refresh")

\* C9 witness: the first read of the poll that a dock command forced is in
\* flight, the command waiting for it.
C9_Witness ==
    \E c \in Cmds :
        /\ powner = c
        /\ ckind[c] = "dock"
        /\ ppc["req"] = "read"
        /\ pidx["req"] = 1

\* The decision table of the specification, first match wins.
OperatingStates == {"RESTRICTED", "IN_OPERATION", "PENDING_START"}
DecisionTable ==
    <<[states |-> {"PAUSED"}, activities |-> MowerActivities, result |-> "PAUSED"],
      [states |-> {"STOPPED", "OFF", "WAIT_FOR_SAFETYPIN"},
       activities |-> MowerActivities, result |-> "ERROR"],
      [states |-> OperatingStates, activities |-> {"CHARGING", "PARKED", "NONE"},
       result |-> "DOCKED"],
      [states |-> OperatingStates, activities |-> {"GOING_OUT", "MOWING"},
       result |-> "MOWING"],
      [states |-> OperatingStates, activities |-> {"GOING_HOME"},
       result |-> "RETURNING"]>>

Matches(i, st, ac) == st \in DecisionTable[i].states /\ ac \in DecisionTable[i].activities

Tabulated(st, ac) ==
    IF st = None \/ ac = None THEN None
    ELSE IF \E i \in DOMAIN DecisionTable : Matches(i, st, ac)
        THEN LET first == CHOOSE i \in DOMAIN DecisionTable :
                            /\ Matches(i, st, ac)
                            /\ \A j \in DOMAIN DecisionTable : Matches(j, st, ac) => i <= j
             IN  DecisionTable[first].result
    ELSE "ERROR"

\* C10: the displayed activity is the tabulated result for the Snapshot's
\* state and activity, absent when there is no Snapshot or a value is absent.
C10_ActivityIsTabulated ==
    attrActivity = IF DOMAIN data = {} THEN None
                   ELSE Tabulated(Get(data, "state"), Get(data, "activity"))

\* C10 witness: a poll has published PENDING_START with GOING_HOME, displayed
\* as Returning.
C10_Witness ==
    /\ Get(data, "state") = "PENDING_START"
    /\ Get(data, "activity") = "GOING_HOME"
    /\ attrActivity = "RETURNING"

\* The entity reports itself available.
IsAvailable == Available(Cur)

\* _last_successful_update is set and less than the window ago.
StampFresh == clock.lastSuccess # NoStamp /\ clock.now - clock.lastSuccess < Window

\* C11: whenever the entity reports itself available, a Snapshot exists,
\* _get_activity yields an activity for it, and the timestamp is within the
\* staleness window.
C11_AvailableNeedsActivity ==
    IsAvailable => (DOMAIN data # {} /\ GetActivity(data) # None /\ StampFresh)

\* C12: the entity is available exactly when a poll has returned its
\* Snapshot and fewer than Window minutes have passed since the time t that
\* the last such poll recorded; at t + Window and later it is not available.
C12_AvailableIffWithinWindow ==
    IsAvailable <=> (clock.okAt # NoStamp /\ clock.now - clock.okAt < Window)

\* A poll has set the timestamp (line 122) and has not ended yet.
StampPending == \E p \in Polls : ppc[p] = "disc" /\ pexc[p] = NoExc

\* C13: the timestamp is the one that the last poll to return a Snapshot has
\* set, but for a poll that has set it and is about to return: no poll that
\* ends in a failure has changed it.
C13_StampOnlyOnSuccess == StampPending \/ clock.lastSuccess = clock.okAt

\* C14: a poll ends by returning a Snapshot of all eight fields or by
\* raising UpdateFailed.
C14_FailsWithUpdateFailed ==
    [][\A p \in Polls :
          PollEnds(p) => IF lastExc' = NoExc THEN DOMAIN data' = AllFields
                         ELSE lastExc' \in {ErrFetch, ErrUnexpected}]_vars

\* Discovery has resolved no device for poll p: get_device returns and the
\* poll goes on to its cleanup or its end, not to connect.
DeviceNotFound(p) == ppc[p] = "resolve" /\ ppc'[p] \in {"disc", "idle"}

\* C15: a poll for which discovery resolves no device leaves the Snapshot and
\* the timestamp unchanged and signals UpdateFailed("Can't find device").
C15_SignalsDeviceNotFound ==
    [][\A p \in Polls :
          DeviceNotFound(p) =>
              /\ data' = data
              /\ clock'.lastSuccess = clock.lastSuccess
              /\ ppc'[p] = "disc" => pexc'[p] = RaisedNotFound
              /\ ppc'[p] = "idle" => lastExc' = RaisedNotFound]_vars

\* The connect that async_setup_entry awaits returns or raises.
SetupConnectReturns == entry.spc = "connect" /\ entry'.spc # "connect"

\* C16, for the connect of async_setup_entry: when it returns, the first
\* detail read is issued if the result is OK and only then; every other
\* result is a connection failure after which nothing is read.
C16_NonOkConnectIsFailure ==
    [][SetupConnectReturns =>
          (entry'.spc = "manufacturer" <=> entry'.sconn = "OK")]_vars

\* C17: the coordinator is registered only in a setup whose connect returned
\* OK and whose first refresh returned a complete Snapshot; a setup whose
\* connect fails ends not ready; a setup that ends not ready has registered
\* no coordinator.
C17_RegisteredOnlyWhenAllSucceeded ==
    [][/\ (~entry.registered /\ entry'.registered) =>
              (entry.sconn = "OK" /\ lastExc' = NoExc /\ DOMAIN data' = AllFields)
       /\ (SetupConnectReturns /\ entry'.sconn # "OK") => entry'.spc = "not_ready"
       /\ entry'.spc = "not_ready" => ~entry'.registered]_vars

\* C20: when the connect of the user step returns the invalid-PIN result,
\* the step ends by showing the form with the error invalid_auth, and no
\* entry is created.
C20_InvalidPinShowsInvalidAuth ==
    [][(flow.pc = "connect" /\ flow'.pc # "connect" /\ flow'.connres = "INVALID_PIN") =>
          (flow'.result = "form" /\ flow'.errors = "invalid_auth")]_vars

\* A call of async_shutdown returns in this step.
ShutdownReturns ==
    /\ entry'.shpc = "idle"
    /\ entry'.shres \in {"returned", "disconnected"}
    /\ entry.shpc = "sdisc" \/ entry'.shutdowns > entry.shutdowns

\* async_shutdown is called in this step on a coordinator in the state a
\* completed shutdown leaves: shut down, its link not connected.
ShutdownRepeated ==
    /\ entry'.shutdowns > entry.shutdowns
    /\ entry.shut
    /\ entry.shres \in {"returned", "disconnected"}
    /\ ~connected

C19_UnloadReleasesLink ==
    entry.upc = "done" =>
        /\ ~entry.registered
        /\ entry.shut
        /\ ~timerArmed
        /\ (/\ \A p \in Polls : ppc[p] = "idle"
            /\ \A c \in Cmds : cpc[c] = "idle"
            /\ entry.shpc = "idle") => ~connected

\* A submission of the user step ends in this step.
FlowStepEnds ==
    /\ flow'.pc = "idle"
    /\ flow.pc # "idle" \/ (flow' # flow /\ flow'.errors # "none")

ClaimedErrorKeys ==
    {"invalid_address_format", "invalid_pin_format", "device_not_found",
     "cannot_connect", "invalid_auth", "exception"}

\* C21: a submission of the user step ends either with a config entry, and
\* then the address is not empty, the PIN is absent or not negative, connect
\* returned OK and the link is disconnected, or with the form and one error
\* key of the documented set; no exception leaves the step.
C21_EntryOrOneErrorKey ==
    [][FlowStepEnds =>
        \/ /\ flow'.result = "entry"
           /\ flow'.address # ""
           /\ ~InvalidPin(flow'.pin)
           /\ flow'.connres = "OK"
           /\ ~flow'.link
        \/ /\ flow'.result = "form"
           /\ flow'.errors \in ClaimedErrorKeys]_vars

\* The order of the reads, coordinator.py 110-119.
ReadOrder ==
    <<"battery_level", "is_charging", "mode", "state", "activity", "error",
      "next_start_time", "statistics">>

\* The poll p takes a step.
PollSteps(p) == ppc'[p] # ppc[p] \/ pidx'[p] # pidx[p]

\* The poll p has left its try block by an exception: only the cleanup
\* disconnect is left, or nothing.
PollAborted(p) ==
    \/ ppc'[p] = "disc" /\ pexc'[p] # NoExc
    \/ ppc'[p] = "idle" /\ lastExc' # NoExc

\* C22: a poll resolves the device and connects exactly when the link is not
\* connected at its start; its reads are issued one after the other in the
\* order of ReadOrder, each after the one before it has returned; a step that
\* fails is followed by the cleanup disconnect at most, and by no read.
C22_PollStepsInOrder ==
    [][\A p \in Polls : PollSteps(p) =>
        /\ ppc[p] = "idle" =>
              IF connected' THEN ppc'[p] = "read" /\ pidx'[p] = 1
                            ELSE ppc'[p] \in {"resolve", "connect"}
        /\ ppc[p] = "resolve" => (ppc'[p] = "connect" \/ PollAborted(p))
        /\ ppc[p] = "connect" =>
              ((ppc'[p] = "read" /\ pidx'[p] = 1) \/ PollAborted(p))
        /\ ppc[p] = "read" =>
              \/ /\ ppc'[p] = "read"
                 /\ pidx'[p] = pidx[p] + 1
                 /\ ReadOrder[pidx[p]] \in DOMAIN pdata'[p]
              \/ ppc'[p] \in {"disc", "idle"}
        /\ ppc[p] = "disc" => ppc'[p] = "idle"
        /\ ppc'[p] = "read" =>
              DOMAIN pdata'[p] = {ReadOrder[i] : i \in 1..(pidx'[p] - 1)}]_vars

\* The fourth read of a poll has raised after three reads returned, and the
\* poll awaits its cleanup disconnect.
C22_Witness ==
    /\ ppc["sched"] = "disc"
    /\ pexc["sched"] = ErrFetch
    /\ DOMAIN pdata["sched"] = {"battery_level", "is_charging", "mode"}

\* C23: the poll of a refresh that execute_command_with_refresh forced (in
\* SpecExec every debounced refresh is one) never awaits the cleanup
\* disconnect: when it reaches its finally block with the link connected, the
\* flag is set and the link is left connected.
C23_ForcedRefreshKeepsLink == ppc["req"] # "disc"

\* The entity command c is in _ensure_connected before this step, and takes
\* the step.
EnsuringConnection(c) ==
    /\ cpc[c] \in {"eresolve", "econnect"}
    /\ cpc'[c] # cpc[c]

\* _ensure_connected returns False to the entity command c in this step.
EnsureFails(c) ==
    /\ EnsuringConnection(c)
    /\ cpc'[c] = "idle"
    /\ cres'[c] = <<"entity", "noop">>

\* C24: an entity command whose _ensure_connected returns False ends there:
\* it has written no verb, it requests no refresh, and the Snapshot, the
\* displayed activity and the flag are as they were; the verb is written
\* only after _ensure_connected has connected the link.
C24_NotConnectedNoEffect ==
    [][\A c \in Cmds :
        /\ EnsureFails(c) =>
              /\ cprog[c] = "started"
              /\ UNCHANGED <<data, attrActivity, attrAvailable, cmdInProgress,
                             ppc, pidx, pdata, powner, dbPending, dbTimer,
                             timerArmed>>
        /\ EnsuringConnection(c) =>
              \/ cpc[c] = "eresolve" /\ cpc'[c] = "econnect"
              \/ cpc[c] = "econnect" /\ cpc'[c] = "verb" /\ connected'
              \/ cpc'[c] = "idle" /\ cres'[c][2] \in {"noop", "raised"}]_vars

\* mower.connect has returned a result other than OK to _ensure_connected, and
\* the entity command has returned.
C24_Witness ==
    /\ cres[1] = <<"entity", "noop">>
    /\ cpc[1] = "idle"
    /\ connected

\* The resume verb of the async_start_mowing on task c returns or raises in
\* this step.
ResumeEnds(c) ==
    /\ ckind[c] = "start_mowing"
    /\ cpc[c] = "verb"
    /\ cpc'[c] # "verb"

\* C25: async_start_mowing writes resume first, as soon as it is connected;
\* when resume has returned it writes override if the activity displayed at
\* that moment is Docked, and goes on to the settle delay without it for
\* every other displayed activity; override is written at no other point.
C25_OverrideIffDocked ==
    [][\A c \in Cmds :
        /\ ResumeEnds(c) =>
              \/ cpc'[c] = "override" /\ attrActivity = "DOCKED"
              \/ cpc'[c] = "sleep" /\ attrActivity # "DOCKED"
              \/ cpc'[c] = "idle" /\ cres'[c] = <<"entity", "raised">>
        /\ (cpc'[c] = "override" /\ cpc[c] # "override") => ResumeEnds(c)
        /\ (ckind'[c] = "start_mowing" /\ cpc[c] \in {"idle", "econnect"}
                /\ cpc'[c] \notin {"idle", "eresolve", "econnect"})
              => (cpc'[c] = "verb" /\ connected')]_vars

\* Resume has returned while Mowing was displayed, and the command waits out
\* its settle delay: override was not written.
C25_Witness ==
    /\ ckind[1] = "start_mowing"
    /\ cpc[1] = "sleep"
    /\ attrActivity = "MOWING"
    /\ connected

\* No command operation is in progress.
NoCommand == ~cmdInProgress /\ \A c \in Cmds : cpc[c] = "idle"

\* C26: whenever the Device Link is connected and no command operation is in
\* progress, the link is eventually not connected.
C26_EventuallyReleased == (connected /\ NoCommand) ~> ~connected

\* async_setup_entry raises ConfigEntryNotReady in this step, after its
\* connect returned OK: a detail read or the first refresh has failed.
SetupAbortsConnected ==
    /\ entry.sconn = "OK"
    /\ entry.spc \in {"manufacturer", "model", "serial", "refresh"}
    /\ entry'.spc = "not_ready"

\* C27: when async_setup_entry raises ConfigEntryNotReady after its connect
\* succeeded, the Device Link is not connected.
C27_AbortedSetupReleasesLink == [][SetupAbortsConnected => ~connected']_vars

====
